---------------------------- MODULE Spec2Model ----------------------------
(* A model of src/index.js: class Web3Tools, a facade over one web3       *)
(* connection handle with five async operations.  Each operation runs    *)
(* synchronously up to its await (issuing at most one client request),   *)
(* is suspended while the node answers, and is resumed with the answer.  *)
(* Every operation body is wrapped in try/catch: the catch logs and      *)
(* rethrows.  The node and the client library's conversions are the      *)
(* environment of the facade.                                            *)
EXTENDS Integers, Sequences, FiniteSets, TLC

(***************************************************************************)
(* Bounds of the model.                                                    *)
(***************************************************************************)
\* Number of operation invocations on the one facade instance.
MaxOps == 2

(***************************************************************************)
(* Program constants.                                                      *)
(***************************************************************************)
\* gas: 2000000 in deployContract
GasLimit == 2000000
\* the unit 'ether' handed to fromWei / toWei: 10^18 wei
EtherDecimals == 18

(***************************************************************************)
(* Decimal strings.  A string of the program is a sequence of one-char     *)
(* strings, so that padding, slicing and stripping are modelled as the     *)
(* library does them; wei amounts do not fit machine integers.             *)
(***************************************************************************)
DigitChars == <<"0", "1", "2", "3", "4", "5", "6", "7", "8", "9">>

Digits == {DigitChars[k] : k \in 1..10}

DigitVal(c) == (CHOOSE k \in 1..10 : DigitChars[k] = c) - 1

DigitChar(n) == DigitChars[n + 1]

Zeros(n) == [k \in 1..n |-> "0"]

\* '0' + s while s.length < n
PadLeft(s, n) == IF Len(s) >= n THEN s ELSE Zeros(n - Len(s)) \o s

\* s += '0' while s.length < n
PadRight(s, n) == IF Len(s) >= n THEN s ELSE s \o Zeros(n - Len(s))

RECURSIVE StripLeadingZeros(_)
\* BN.toString(10): no leading zeros, "0" for zero
StripLeadingZeros(s) ==
    IF Len(s) <= 1 THEN (IF Len(s) = 0 THEN <<"0">> ELSE s)
    ELSE IF Head(s) = "0" THEN StripLeadingZeros(Tail(s))
    ELSE s

RECURSIVE StripTrailingZeros(_)
\* fraction.match(/^([0-9]*[1-9]|0)(0*)/)[1]
StripTrailingZeros(s) ==
    IF Len(s) <= 1 THEN (IF Len(s) = 0 THEN <<"0">> ELSE s)
    ELSE IF s[Len(s)] = "0" THEN StripTrailingZeros(SubSeq(s, 1, Len(s) - 1))
    ELSE s

DotPositions(s) == {k \in 1..Len(s) : s[k] = "."}

RECURSIVE AddFrom(_, _, _, _)
\* schoolbook addition of two equally long digit strings, from position k
\* down to 1 with the carry c; the result is one digit longer
AddFrom(a, b, k, c) ==
    IF k = 0 THEN <<DigitChar(c)>>
    ELSE LET t == DigitVal(a[k]) + DigitVal(b[k]) + c
         IN  AddFrom(a, b, k - 1, t \div 10) \o <<DigitChar(t % 10)>>

\* the sum of two non-negative integers in decimal notation
AddDec(a, b) ==
    LET n == IF Len(a) >= Len(b) THEN Len(a) ELSE Len(b)
    IN  StripLeadingZeros(AddFrom(PadLeft(a, n), PadLeft(b, n), n, 0))

RECURSIVE SubFrom(_, _, _, _)
\* schoolbook subtraction a - b (a >= b), from position k down with borrow c
SubFrom(a, b, k, c) ==
    IF k = 0 THEN <<>>
    ELSE LET t == DigitVal(a[k]) - DigitVal(b[k]) - c
         IN  IF t < 0
             THEN SubFrom(a, b, k - 1, 1) \o <<DigitChar(t + 10)>>
             ELSE SubFrom(a, b, k - 1, 0) \o <<DigitChar(t)>>

\* the difference of two non-negative integers in decimal notation, a >= b
SubDec(a, b) ==
    LET n == IF Len(a) >= Len(b) THEN Len(a) ELSE Len(b)
    IN  StripLeadingZeros(SubFrom(PadLeft(a, n), PadLeft(b, n), n, 0))

RECURSIVE LeqDigits(_, _)
\* lexicographic order of two equally long digit strings
LeqDigits(a, b) ==
    IF Len(a) = 0 THEN TRUE
    ELSE IF Head(a) = Head(b) THEN LeqDigits(Tail(a), Tail(b))
    ELSE DigitVal(Head(a)) < DigitVal(Head(b))

\* a <= b for two non-negative integers in decimal notation
LeqDec(a, b) ==
    LET n == IF Len(a) >= Len(b) THEN Len(a) ELSE Len(b)
    IN  LeqDigits(PadLeft(a, n), PadLeft(b, n))

(***************************************************************************)
(* The client library's unit conversions (web3.utils of web3 1.x, which    *)
(* delegates to ethjs-unit).                                               *)
(***************************************************************************)
\* the number of decimal places of a unit (the library's unitMap)
UnitDecimals(unit) ==
    CASE unit = "ether" -> EtherDecimals
      [] unit = "gwei"  -> 9
      [] unit = "wei"   -> 0

\* web3.utils.fromWei(number, unit): whole = wei div base, fraction =
\* wei mod base padded to the unit's decimal places with its trailing zeros
\* stripped; the fraction is left out when it is zero.
FromWei(wei, unit) ==
    LET n        == Len(wei)
        places   == UnitDecimals(unit)
        whole    == IF n > places THEN SubSeq(wei, 1, n - places) ELSE <<"0">>
        low      == IF n > places THEN SubSeq(wei, n - places + 1, n) ELSE wei
        fraction == StripTrailingZeros(PadLeft(low, places))
    IN  IF fraction = <<"0">> THEN whole ELSE whole \o <<".">> \o fraction

\* what toWei accepts: /^-?[0-9.]+$/ (no sign is ever passed here), not ".",
\* at most one decimal point, no more decimal places than the unit has;
\* it throws on anything else
ToWeiAccepts(number, unit) ==
    /\ Len(number) > 0
    /\ \A k \in 1..Len(number) : number[k] \in Digits \cup {"."}
    /\ number # <<".">>
    /\ Cardinality(DotPositions(number)) <= 1
    /\ \A p \in DotPositions(number) : Len(number) - p <= UnitDecimals(unit)

\* web3.utils.toWei(number, unit): whole * base + fraction padded on the
\* right to the unit's decimal places, as a decimal string
ToWei(number, unit) ==
    LET dots     == DotPositions(number)
        p        == IF dots = {} THEN Len(number) + 1 ELSE CHOOSE q \in dots : TRUE
        whole0   == SubSeq(number, 1, p - 1)
        frac0    == SubSeq(number, p + 1, Len(number))
        whole    == IF whole0 = <<>> THEN <<"0">> ELSE whole0
        fraction == IF frac0 = <<>> THEN <<"0">> ELSE frac0
    IN  StripLeadingZeros(whole \o PadRight(fraction, UnitDecimals(unit)))


(***************************************************************************)
(* Values of the program.  A value is a record with one field per type so  *)
(* that values of different types can be compared.                         *)
(***************************************************************************)
Undefined == [t |-> "undefined", n |-> 0, d |-> <<>>, s |-> "",
              transactionHash |-> "", contractAddress |-> ""]

NumV(x) == [Undefined EXCEPT !.t = "number", !.n = x]

DecV(x) == [Undefined EXCEPT !.t = "string", !.d = x]

StrV(x) == [Undefined EXCEPT !.t = "string", !.s = x]

\* a transaction receipt, as the client resolves send() with
Receipt(hash, addr) ==
    [Undefined EXCEPT !.t = "receipt", !.transactionHash = hash,
                      !.contractAddress = addr]

(***************************************************************************)
(* Inputs of the operations and the initial chain.                         *)
(***************************************************************************)
ProviderUrl == "http://localhost:8545"

\* addresses the client accepts
ValidAddresses == {"0xABC", "0xDEF"}

\* addresses callers pass: the facade validates nothing itself
Addresses == ValidAddresses \cup {"nope"}

\* a contract account callers name
ContractAddress == "0xABC"

\* 2500000000000000000 wei
Wei2500 == <<"2", "5">> \o Zeros(17)

\* amounts callers pass: "1", "0.5", "0.000000000000000001", and one with
\* 19 decimal places
AmountOne == <<"1">>

AmountHalf == <<"0", ".", "5">>

AmountOneWei == <<"0", ".">> \o Zeros(17) \o <<"1">>

AmountTooFine == <<"0", ".">> \o Zeros(18) \o <<"1">>

Amounts == {AmountOne, AmountHalf, AmountOneWei, AmountTooFine}

\* sendTransaction(fromAddress, toAddress, amount) as callers invoke it
SendInputs ==
    {<<"0xABC", "0xDEF", amt>> : amt \in Amounts \ {AmountOne}}
        \cup {<<"0xDEF", "0xABC", AmountOne>>, <<"nope", "0xDEF", AmountOne>>,
              <<"0xABC", "nope", AmountHalf>>}

\* ABI descriptors callers pass: an array of entries (by their names), or
\* something that is no array
AbiGetSet == [isArray |-> TRUE, names |-> {"get", "set"}]

AbiNone == [isArray |-> FALSE, names |-> {}]

\* callContractMethod(contractAddress, abi, methodName, methodParams) as
\* callers invoke it
CallInputs ==
    {<<ContractAddress, AbiGetSet, "get", <<>> >>,
     <<ContractAddress, AbiGetSet, "missing", <<"7">> >>,
     <<"nope", AbiGetSet, "get", <<>> >>,
     <<ContractAddress, AbiNone, "get", <<>> >>}

\* deployContract(abi, bytecode, fromAddress, constructorParams) as
\* callers invoke it
DeployInputs ==
    {<<AbiGetSet, "0x6001", "0xABC", <<"7">> >>,
     <<AbiNone, "0x6001", "0xABC", <<>> >>,
     <<AbiGetSet, "0x6001", "nope", <<>> >>}

\* the chain when the facade is constructed
InitialBlocks == {100}

InitialBalances ==
    { [a \in ValidAddresses |-> IF a = "0xABC" THEN Wei2500 ELSE <<"0">>] }

\* what a deployment may need: the fixed limit exactly, or one unit more
GasNeeded == {GasLimit, GasLimit + 1}

\* hashes and contract addresses the node hands out, by sequence number
TxHashes == <<"0xh1", "0xh2", "0xh3", "0xh4", "0xh5">>

ContractAddresses == <<"0xc1", "0xc2", "0xc3", "0xc4", "0xc5">>

NoArgs == [address |-> "", abi |-> AbiNone, methodName |-> "",
           methodParams |-> <<>>, bytecode |-> "", from |-> "", to |-> "",
           amount |-> <<>>]

NoRequest == [op |-> 0, method |-> "", address |-> "", from |-> "", to |-> "",
              value |-> <<>>, gas |-> 0, data |-> "", arguments |-> <<>>]

OpIds == 1..MaxOps

(***************************************************************************)
(* State.                                                                  *)
(***************************************************************************)
VARIABLES
    web3,        \* this.web3: the connection handle
    ops,         \* the invocations: kind, arguments, position, outcome
    requests,    \* the requests issued through the handle, in order
    responses,   \* the node's answer to each request, once given
    log,         \* the lines written by console.error, by invocation
    blockNumber, \* node: chain head
    balance,     \* node: wei balance of each account
    txs,         \* node: accepted value transfers
    contracts    \* node: deployed contract accounts

vars == <<web3, ops, requests, responses, log, blockNumber, balance, txs,
          contracts>>

node == <<blockNumber, balance, txs, contracts>>

IdleOp == [kind |-> "none", args |-> NoArgs, pc |-> "idle", req |-> 0,
           value |-> Undefined, error |-> ""]

\* constructor(providerUrl): this.web3 = new Web3(providerUrl)
Constructor(providerUrl) == [provider |-> providerUrl]

Init ==
    /\ web3 = Constructor(ProviderUrl)
    /\ ops = [i \in OpIds |-> IdleOp]
    /\ requests = <<>>
    /\ responses = <<>>
    /\ log = [i \in OpIds |-> <<>>]
    /\ blockNumber \in InitialBlocks
    /\ balance \in InitialBalances
    /\ txs = <<>>
    /\ contracts = {}

(***************************************************************************)
(* The client library, as the facade uses it.                              *)
(***************************************************************************)
\* what the client does with an address it is handed: it formats it and
\* throws on one that is none
AddressError(address) ==
    IF address \in ValidAddresses THEN "" ELSE "InvalidAddressError"

\* new this.web3.eth.Contract(abi, contractAddress): throws unless abi is an
\* array, and on a contract address that is none (deployContract passes no
\* address); the object has the members options and methods
ContractError(abi, hasAddress, contractAddress) ==
    IF ~abi.isArray THEN "ContractMissingABIError"
    ELSE IF hasAddress THEN AddressError(contractAddress)
    ELSE ""

Contract(abi, contractAddress) ==
    [options |-> [jsonInterface |-> abi, address |-> contractAddress],
     methods |-> abi.names]

NoMethod == [defined |-> FALSE, name |-> ""]

\* The outcome of a client call: the value it resolves with or the error
\* it rejects with.  transport tells a request that did not complete from
\* one the node refused; needed (the gas a deployment needs) and seen (the
\* transfers mined when a balance was read) record the node's side of it.
Pending == [state |-> "pending", value |-> Undefined, error |-> "",
            transport |-> FALSE, needed |-> 0, seen |-> {}]

Ok(v) == [Pending EXCEPT !.state = "ok", !.value = v]

Failed(e) == [Pending EXCEPT !.state = "error", !.error = e]

\* the client's error for a request that could not complete
Unreachable == [Failed("ConnectionError") EXCEPT !.transport = TRUE]

(***************************************************************************)
(* The facade: what each operation evaluates.                              *)
(***************************************************************************)
\* the first argument of console.error in each catch block
ErrorMessage(kind) ==
    CASE kind = "getBlockNumber"     -> "Error fetching block number:"
      [] kind = "getBalance"         -> "Error fetching balance:"
      [] kind = "callContractMethod" -> "Error calling contract method:"
      [] kind = "deployContract"     -> "Error deploying contract:"
      [] kind = "sendTransaction"    -> "Error sending transaction:"

\* catch (error) { console.error(..., error); ... }: the line logged
LogLine(i, kind, error) == [op |-> i, msg |-> ErrorMessage(kind), error |-> error]

\* a catch block that wraps what it caught in an error of its own
RethrownWrapped(error) == "Error"

\* a catch block that translates transport failures
RethrownTranslated(error) ==
    IF error = "ConnectionError" THEN "NetworkError" ELSE error

\* catch (error) { ...; throw error; }: what the caller is rejected with
Rethrown(error) == error

\* a lookup of the method by its name: contract.methods[methodName]
MethodOfByName(contract, methodName) ==
    IF methodName \in contract.methods
    THEN [defined |-> TRUE, name |-> methodName]
    ELSE NoMethod

\* const method = contract.methodsmethodName: a read of the member named
\* "methodsmethodName" of the contract object, whatever methodName is
MethodOf(contract, methodName) ==
    IF "methodsmethodName" \in DOMAIN contract
    THEN [defined |-> TRUE, name |-> "methodsmethodName"]
    ELSE NoMethod

\* a deployment sent with a raised gas limit
DeployOptionsMoreGas(fromAddress) == [from |-> fromAddress, gas |-> GasLimit + GasLimit]

\* deploy.send({ from: fromAddress, gas: 2000000 })
DeployOptions(fromAddress) == [from |-> fromAddress, gas |-> GasLimit]

\* a transfer whose amount is converted from the wrong unit
TransactionObjectGwei(fromAddress, toAddress, amount) ==
    [from |-> fromAddress, to |-> toAddress, value |-> ToWei(amount, "gwei")]

\* a transfer whose amount is submitted as wei, unconverted
TransactionObjectRaw(fromAddress, toAddress, amount) ==
    [from |-> fromAddress, to |-> toAddress, value |-> ToWei(amount, "wei")]

\* { from: fromAddress, to: toAddress, value: toWei(amount, 'ether') }
TransactionObject(fromAddress, toAddress, amount) ==
    [from |-> fromAddress, to |-> toAddress, value |-> ToWei(amount, "ether")]

\* a balance returned as the node gave it, in wei
BalanceResultRaw(rawBalance) == DecV(rawBalance.d)

\* return this.web3.utils.fromWei(balance, 'ether')
BalanceResult(rawBalance) == DecV(FromWei(rawBalance.d, "ether"))

\* what each operation returns from the value its await produced
Returned(kind, awaited) ==
    CASE kind = "getBlockNumber"     -> awaited
      [] kind = "getBalance"         -> BalanceResult(awaited)
      [] kind = "callContractMethod" -> awaited
      [] kind = "deployContract"     -> StrV(awaited.contractAddress)
      [] kind = "sendTransaction"    -> StrV(awaited.transactionHash)

\* a client that hands the answers out in the order of the requests,
\* whoever waits
AwaitedFirstAnswered(i) ==
    LET done == {r \in 1..Len(responses) : responses[r].state # "pending"}
    IN  IF done = {} THEN responses[ops[i].req]
        ELSE responses[CHOOSE r \in done : \A q \in done : r <= q]

\* await: the answer the suspended operation i is resumed with, which is
\* the one to its own request
AwaitedResponse(i) == responses[ops[i].req]

\* invocations are numbered in the order they are made
Invocable(i) ==
    /\ ops[i].pc = "idle"
    /\ \A j \in OpIds : j < i => ops[j].pc # "idle"

\* the operation was entered with these arguments
Entered(i, kind, args) == [ops[i] EXCEPT !.kind = kind, !.args = args]

\* the try block threw before any await: catch, log, rethrow
ThrowsAtOnce(i, kind, args, error) ==
    /\ ops' = [ops EXCEPT ![i] = [Entered(i, kind, args) EXCEPT
                                     !.pc = "rejected",
                                     !.error = Rethrown(error)]]
    /\ log' = [log EXCEPT ![i] = Append(@, LogLine(i, kind, error))]
    /\ UNCHANGED <<web3, requests, responses, node>>

\* the try block reached its await with this request issued
Awaits(i, kind, args, request) ==
    /\ requests' = Append(requests, [request EXCEPT !.op = i])
    /\ responses' = Append(responses, Pending)
    /\ ops' = [ops EXCEPT ![i] = [Entered(i, kind, args) EXCEPT
                                     !.pc = "awaiting",
                                     !.req = Len(requests) + 1]]
    /\ UNCHANGED <<web3, log, node>>

(***************************************************************************)
(* The five operations, up to their await.                                 *)
(***************************************************************************)
GetBlockNumber(i) ==
    /\ Invocable(i)
    /\ Awaits(i, "getBlockNumber", NoArgs,
              [NoRequest EXCEPT !.method = "eth_blockNumber"])

GetBalance(i, address) ==
    LET args == [NoArgs EXCEPT !.address = address]
    IN  /\ Invocable(i)
        /\ IF AddressError(address) # ""
           THEN ThrowsAtOnce(i, "getBalance", args, AddressError(address))
           ELSE Awaits(i, "getBalance", args,
                       [NoRequest EXCEPT !.method = "eth_getBalance",
                                         !.address = address])

CallContractMethod(i, contractAddress, abi, methodName, methodParams) ==
    LET args   == [NoArgs EXCEPT !.address = contractAddress, !.abi = abi,
                                 !.methodName = methodName,
                                 !.methodParams = methodParams]
        method == MethodOf(Contract(abi, contractAddress), methodName)
    IN  /\ Invocable(i)
        /\ IF ContractError(abi, TRUE, contractAddress) # ""
           THEN ThrowsAtOnce(i, "callContractMethod", args,
                             ContractError(abi, TRUE, contractAddress))
           ELSE IF ~method.defined
           THEN \* method.call() on undefined
                ThrowsAtOnce(i, "callContractMethod", args, "TypeError")
           ELSE \* method.call(): no arguments are passed
                Awaits(i, "callContractMethod", args,
                       [NoRequest EXCEPT !.method = "eth_call",
                                         !.to = contractAddress,
                                         !.data = method.name])

DeployContract(i, abi, bytecode, fromAddress, constructorParams) ==
    LET args    == [NoArgs EXCEPT !.abi = abi, !.bytecode = bytecode,
                                  !.from = fromAddress,
                                  !.methodParams = constructorParams]
        options == DeployOptions(fromAddress)
    IN  /\ Invocable(i)
        /\ IF ContractError(abi, FALSE, "") # ""
           THEN ThrowsAtOnce(i, "deployContract", args,
                             ContractError(abi, FALSE, ""))
           ELSE IF AddressError(options.from) # ""
           THEN ThrowsAtOnce(i, "deployContract", args,
                             AddressError(options.from))
           ELSE Awaits(i, "deployContract", args,
                       [NoRequest EXCEPT !.method = "eth_sendTransaction",
                                         !.from = options.from,
                                         !.gas = options.gas,
                                         !.data = bytecode,
                                         !.arguments = constructorParams])

SendTransaction(i, fromAddress, toAddress, amount) ==
    LET args == [NoArgs EXCEPT !.from = fromAddress, !.to = toAddress,
                               !.amount = amount]
        tx   == TransactionObject(fromAddress, toAddress, amount)
    IN  /\ Invocable(i)
        /\ IF ~ToWeiAccepts(amount, "ether")
           THEN ThrowsAtOnce(i, "sendTransaction", args, "InvalidNumberError")
           ELSE IF AddressError(tx.from) # ""
           THEN ThrowsAtOnce(i, "sendTransaction", args, AddressError(tx.from))
           ELSE IF AddressError(tx.to) # ""
           THEN ThrowsAtOnce(i, "sendTransaction", args, AddressError(tx.to))
           ELSE Awaits(i, "sendTransaction", args,
                       [NoRequest EXCEPT !.method = "eth_sendTransaction",
                                         !.from = tx.from, !.to = tx.to,
                                         !.value = tx.value])

\* the rest of an operation, once its await has an answer: return the
\* result, or catch, log and rethrow
Resume(i) ==
    LET resp == AwaitedResponse(i)
        kind == ops[i].kind
    IN  /\ ops[i].pc = "awaiting"
        /\ resp.state # "pending"
        /\ IF resp.state = "ok"
           THEN /\ ops' = [ops EXCEPT ![i].pc = "resolved",
                                      ![i].value = Returned(kind, resp.value)]
                /\ UNCHANGED log
           ELSE /\ ops' = [ops EXCEPT ![i].pc = "rejected",
                                      ![i].error = Rethrown(resp.error)]
                /\ log' = [log EXCEPT ![i] = Append(@, LogLine(i, kind, resp.error))]
        /\ UNCHANGED <<web3, requests, responses, node>>

(***************************************************************************)
(* The node behind the provider URL.                                       *)
(***************************************************************************)
RECURSIVE PendingOutFrom(_, _)
\* wei promised by the not yet mined transfers of an account, from the
\* k-th accepted transfer back
PendingOutFrom(a, k) ==
    IF k = 0 THEN <<"0">>
    ELSE IF txs[k].from = a /\ ~txs[k].mined
    THEN AddDec(PendingOutFrom(a, k - 1), txs[k].value)
    ELSE PendingOutFrom(a, k - 1)

PendingOut(a) == PendingOutFrom(a, Len(txs))

\* the transfers mined so far
Mined == {t \in 1..Len(txs) : txs[t].mined}

\* the decoded result of a read-only call
CallResult(to, data) == [Undefined EXCEPT !.t = "result", !.s = data]

\* the node's answer to a request, given what a deployment needs and
\* whether its constructor reverts
NodeAnswer(req, needed, reverts) ==
    CASE req.method = "eth_blockNumber" -> Ok(NumV(blockNumber))
      [] req.method = "eth_getBalance"  ->
            [Ok(DecV(balance[req.address])) EXCEPT !.seen = Mined]
      [] req.method = "eth_call"        ->
            IF req.data \in {"get", "set"}
            THEN Ok(CallResult(req.to, req.data))
            ELSE Failed("InvalidMethodError")
      [] req.method = "eth_sendTransaction" /\ req.to = "" ->
            [(IF needed > req.gas THEN Failed("OutOfGasError")
              ELSE IF reverts THEN Failed("TransactionRevertedError")
              ELSE Ok(Receipt("0xd", ContractAddresses[Cardinality(contracts) + 1])))
             EXCEPT !.needed = needed]
      [] req.method = "eth_sendTransaction" /\ req.to # "" ->
            IF LeqDec(AddDec(PendingOut(req.from), req.value), balance[req.from])
            THEN Ok(Receipt(TxHashes[Len(txs) + 1], ""))
            ELSE Failed("InsufficientFundsError")

\* the node answers request r
NodeRespond(r) ==
    \E needed \in GasNeeded, reverts \in BOOLEAN :
        LET req    == requests[r]
            answer == NodeAnswer(req, needed, reverts)
            deploy == req.method = "eth_sendTransaction" /\ req.to = ""
            send   == req.method = "eth_sendTransaction" /\ req.to # ""
        IN  /\ responses[r].state = "pending"
            /\ responses' = [responses EXCEPT ![r] = answer]
            /\ txs' = IF send /\ answer.state = "ok"
                      THEN Append(txs, [from |-> req.from, to |-> req.to,
                                        value |-> req.value, mined |-> FALSE,
                                        req |-> r])
                      ELSE txs
            /\ contracts' = IF deploy /\ answer.state = "ok"
                            THEN contracts \cup {answer.value.contractAddress}
                            ELSE contracts
            /\ blockNumber' = IF deploy /\ answer.state = "ok"
                              THEN blockNumber + 1
                              ELSE blockNumber
            /\ UNCHANGED <<web3, ops, requests, log, balance>>

\* the request r does not complete: the transport fails
NodeFail(r) ==
    /\ responses[r].state = "pending"
    /\ responses' = [responses EXCEPT ![r] = Unreachable]
    /\ UNCHANGED <<web3, ops, requests, log, node>>

\* the accepted transfer t is mined: its value moves
Mine(t) ==
    LET tx    == txs[t]
        debit == [balance EXCEPT ![tx.from] = SubDec(@, tx.value)]
    IN  /\ ~tx.mined
        /\ txs' = [txs EXCEPT ![t].mined = TRUE]
        /\ balance' = [debit EXCEPT ![tx.to] = AddDec(@, tx.value)]
        /\ blockNumber' = blockNumber + 1
        /\ UNCHANGED <<web3, ops, requests, responses, log, contracts>>

(***************************************************************************)
(* Specifications.                                                         *)
(***************************************************************************)
Next ==
    \/ \E i \in OpIds : GetBlockNumber(i)
    \/ \E i \in OpIds, a \in Addresses : GetBalance(i, a)
    \/ \E i \in OpIds, in \in CallInputs :
          CallContractMethod(i, in[1], in[2], in[3], in[4])
    \/ \E i \in OpIds, in \in DeployInputs :
          DeployContract(i, in[1], in[2], in[3], in[4])
    \/ \E i \in OpIds, in \in SendInputs :
          SendTransaction(i, in[1], in[2], in[3])
    \/ \E i \in OpIds : Resume(i)
    \/ \E r \in 1..Len(requests) : NodeRespond(r)
    \/ \E r \in 1..Len(requests) : NodeFail(r)
    \/ \E t \in 1..Len(txs) : Mine(t)

Spec == Init /\ [][Next]_vars

\* the node mines some accepted transfer
MineSome == \E t \in 1..Len(txs) : Mine(t)

\* Mine(t) is enabled exactly while transfer t is accepted and not mined
\* (and it changes txs), so ENABLED <<MineSome>>_vars is Mined # 1..Len(txs)
MineSomeEnabled == (ENABLED <<MineSome>>_vars) <=> (Mined # 1..Len(txs))

\* The node keeps mining what it accepted: weak fairness of MineSome,
\* WF_vars(MineSome), written out by its definition
\*     []<>(~ENABLED <<MineSome>>_vars) \/ []<><<MineSome>>_vars
\* with the enabling condition as the state predicate of MineSomeEnabled.
NodeKeepsMining == []<>(Mined = 1..Len(txs)) \/ []<><<MineSome>>_vars

FairSpec == Spec /\ NodeKeepsMining

(***************************************************************************)
(* Properties.                                                             *)
(***************************************************************************)
Settled(i) == ops[i].pc \in {"resolved", "rejected"}

\* the requests invocation i issued
RequestsOf(i) == {r \in 1..Len(requests) : requests[r].op = i}

\* the error the client throws on the arguments of an invocation before
\* any request is made, "" when it throws none
ClientThrows(kind, args) ==
    CASE kind = "getBalance" -> AddressError(args.address)
      [] kind = "callContractMethod" -> ContractError(args.abi, TRUE, args.address)
      [] kind = "deployContract" ->
            IF ContractError(args.abi, FALSE, "") # ""
            THEN ContractError(args.abi, FALSE, "")
            ELSE AddressError(args.from)
      [] kind = "sendTransaction" ->
            IF ~ToWeiAccepts(args.amount, "ether") THEN "InvalidNumberError"
            ELSE IF AddressError(args.from) # "" THEN AddressError(args.from)
            ELSE AddressError(args.to)
      [] OTHER -> ""

\* the error the underlying client call of invocation i failed with, ""
\* while it has not failed
FailureOf(i) ==
    IF ops[i].req # 0
    THEN (IF responses[ops[i].req].state = "error"
          THEN responses[ops[i].req].error ELSE "")
    ELSE ClientThrows(ops[i].kind, ops[i].args)

\* C1: for each of the five operations, once the underlying client call has
\* failed with error E and the operation has settled, it has rejected with
\* exactly E and never resolved, it has written exactly one log line, which
\* carries E and the operation's message, and it has issued no request
\* besides the one that failed (none at all when the client threw before
\* any request).
C1_FailureLoggedOnceAndRethrown ==
    \A i \in OpIds :
        /\ Cardinality(RequestsOf(i)) <= 1
        /\ (ops[i].req = 0 => RequestsOf(i) = {})
        /\ (ops[i].req # 0 => RequestsOf(i) = {ops[i].req})
        /\ (FailureOf(i) # "" /\ Settled(i)) =>
              /\ ops[i].pc = "rejected"
              /\ ops[i].error = FailureOf(i)
              /\ ops[i].value = Undefined
              /\ log[i] = << [op |-> i, msg |-> ErrorMessage(ops[i].kind),
                             error |-> FailureOf(i)] >>

\* C1 witness: a getBlockNumber whose request failed in transport and a
\* sendTransaction the node refused have both rejected and logged.
C1_Witness ==
    \E i, j \in OpIds :
        /\ ops[i].kind = "getBlockNumber" /\ ops[i].pc = "rejected"
        /\ FailureOf(i) = "ConnectionError" /\ Len(log[i]) = 1
        /\ ops[j].kind = "sendTransaction" /\ ops[j].pc = "rejected"
        /\ FailureOf(j) = "InsufficientFundsError" /\ Len(log[j]) = 1

\* C2: an operation whose request failed in transport rejects, once
\* resumed, with ConnectionError and with no value, and the facade's state
\* (the connection handle) is what it was before the operation started.
C2_TransportFailureRejects ==
    /\ web3 = Constructor(ProviderUrl)
    /\ \A i \in OpIds :
          (ops[i].req # 0 /\ responses[ops[i].req].transport /\ Settled(i)) =>
              /\ ops[i].pc = "rejected"
              /\ ops[i].error = "ConnectionError"
              /\ ops[i].value = Undefined

\* C2 witness: a getBalance and a deployContract whose requests failed in
\* transport have both rejected.
C2_Witness ==
    \E i, j \in OpIds :
        /\ ops[i].kind = "getBalance" /\ ops[j].kind = "deployContract"
        /\ \A k \in {i, j} :
              /\ ops[k].req # 0
              /\ responses[ops[k].req].transport
              /\ ops[k].pc = "rejected"

\* the callContractMethod invocations whose contract object the client
\* constructs: the ABI is an array and the contract address is one
CallConstructs(i) ==
    /\ ops[i].kind = "callContractMethod"
    /\ ContractError(ops[i].args.abi, TRUE, ops[i].args.address) = ""

\* C3: callContractMethod with a methodName that is an entry of abi, on a
\* reachable node, issues a read-only call of that method on the contract
\* at contractAddress and resolves with its decoded result.
C3_CallInvokesNamedMethod ==
    \A i \in OpIds :
        (/\ CallConstructs(i)
         /\ ops[i].args.methodName \in ops[i].args.abi.names
         /\ Settled(i)
         /\ \A r \in RequestsOf(i) : ~responses[r].transport) =>
            /\ ops[i].pc = "resolved"
            /\ ops[i].req # 0
            /\ requests[ops[i].req].method = "eth_call"
            /\ requests[ops[i].req].to = ops[i].args.address
            /\ requests[ops[i].req].data = ops[i].args.methodName
            /\ requests[ops[i].req].arguments = ops[i].args.methodParams
            /\ ops[i].value = CallResult(ops[i].args.address, ops[i].args.methodName)

\* C4: callContractMethod with a methodName that is no entry of the
\* supplied ABI rejects with InvalidMethodError and resolves with no value.
C4_UnknownMethodRejected ==
    \A i \in OpIds :
        (/\ CallConstructs(i)
         /\ ops[i].args.methodName \notin ops[i].args.abi.names
         /\ Settled(i)) =>
            /\ ops[i].pc = "rejected"
            /\ ops[i].error = "InvalidMethodError"
            /\ ops[i].value = Undefined

\* C10 as stated: every callContractMethod invocation fails in the same
\* way whatever contractAddress, abi, methodName, methodParams and the node
\* are: it rejects, any two invocations reject with the same error, it
\* resolves with no value and it sends no request.
C10_AlwaysSameError ==
    \A i, j \in OpIds :
        (ops[i].kind = "callContractMethod" /\ ops[j].kind = "callContractMethod") =>
            /\ ops[i].pc = "rejected"
            /\ ops[i].error = ops[j].error
            /\ ops[i].value = Undefined
            /\ RequestsOf(i) = {}

\* C10 amended: every callContractMethod invocation rejects at once,
\* resolves with no value and sends no request, whatever its arguments and
\* the node are; when the client constructs the contract object (abi is an
\* array, contractAddress an address) the error is the same TypeError for
\* every methodName and methodParams, and otherwise it is the error the
\* client threw on abi or contractAddress.
C10_FailsBeforeAnyRequest ==
    \A i \in OpIds :
        ops[i].kind = "callContractMethod" =>
            /\ ops[i].pc = "rejected"
            /\ ops[i].value = Undefined
            /\ ops[i].req = 0
            /\ RequestsOf(i) = {}
            /\ ops[i].error = IF CallConstructs(i) THEN "TypeError"
                              ELSE ContractError(ops[i].args.abi, TRUE,
                                                 ops[i].args.address)

\* C10 witness: two invocations with different method names and parameter
\* lists, one naming an entry of the ABI and one not, with the node having
\* answered nothing, have both rejected with TypeError.
C10_Witness ==
    \E i, j \in OpIds :
        /\ CallConstructs(i) /\ CallConstructs(j)
        /\ ops[i].args.methodName \in ops[i].args.abi.names
        /\ ops[j].args.methodName \notin ops[j].args.abi.names
        /\ ops[i].args.methodParams # ops[j].args.methodParams
        /\ ops[i].error = "TypeError" /\ ops[j].error = "TypeError"
        /\ ops[i].pc = "rejected" /\ ops[j].pc = "rejected"

\* d is the decimal notation of a number: digits, with at most one point
\* that has digits on both sides, no leading zero on a whole part other
\* than "0", and no trailing zero after the point
IsCanonicalDecimal(d) ==
    LET dots  == DotPositions(d)
        p     == IF dots = {} THEN Len(d) + 1 ELSE CHOOSE q \in dots : TRUE
    IN  /\ Len(d) > 0
        /\ \A k \in 1..Len(d) : d[k] \in Digits \cup {"."}
        /\ Cardinality(dots) <= 1
        /\ p > 1
        /\ (p > 2 => d[1] # "0")
        /\ (dots # {} => p < Len(d) /\ d[Len(d)] # "0")

\* C5: a getBalance that resolved, the node having answered the raw
\* balance r wei for the address, resolved with the decimal string of
\* exactly r / 10^18: a canonical decimal with at most 18 decimal places
\* which, scaled back by 10^18, is r digit for digit; r =
\* 2500000000000000000 gives "2.5" and r = 0 gives "0".
C5_BalanceIsWeiOverTenTo18 ==
    \A i \in OpIds :
        (ops[i].kind = "getBalance" /\ ops[i].pc = "resolved") =>
            LET r == responses[ops[i].req].value.d
                v == ops[i].value
            IN  /\ r = StripLeadingZeros(r)
                /\ v.t = "string"
                /\ IsCanonicalDecimal(v.d)
                /\ ToWeiAccepts(v.d, "ether")
                /\ ToWei(v.d, "ether") = r
                /\ (r = Wei2500 => v.d = <<"2", ".", "5">>)
                /\ (r = <<"0">> => v.d = <<"0">>)

\* C5 witness: getBalance("0xABC") resolved with "2.5" on a raw balance of
\* 2500000000000000000, and getBalance("0xDEF") resolved with "0" on a raw
\* balance of 0.
C5_Witness ==
    \E i, j \in OpIds :
        /\ ops[i].kind = "getBalance" /\ ops[i].pc = "resolved"
        /\ ops[i].args.address = "0xABC"
        /\ responses[ops[i].req].value.d = Wei2500
        /\ ops[i].value.d = <<"2", ".", "5">>
        /\ ops[j].kind = "getBalance" /\ ops[j].pc = "resolved"
        /\ ops[j].args.address = "0xDEF"
        /\ responses[ops[j].req].value.d = <<"0">>
        /\ ops[j].value.d = <<"0">>

\* amount * 10^18 for the amounts callers pass that denote a whole number
\* of wei
ExpectedWei(amount) ==
    CASE amount = AmountOne    -> <<"1">> \o Zeros(18)
      [] amount = AmountHalf   -> <<"5">> \o Zeros(17)
      [] amount = AmountOneWei -> <<"1">>

\* the arguments of a sendTransaction the client takes: an amount that is
\* a whole number of wei, between two addresses
SendAccepted(args) ==
    /\ args.amount \in Amounts \ {AmountTooFine}
    /\ args.from \in ValidAddresses
    /\ args.to \in ValidAddresses

\* C6: a sendTransaction never issues more than one request; with
\* arguments the client takes it issues exactly one, the submission of a
\* transaction with from = fromAddress, to = toAddress and value = amount *
\* 10^18 wei (which converts back to amount); and when it resolves, it
\* resolves with the hash of the transaction the node accepted for that
\* very request.
C6_OneTransferOfAmountInWei ==
    \A i \in OpIds :
        ops[i].kind = "sendTransaction" =>
            /\ Cardinality(RequestsOf(i)) <= 1
            /\ (SendAccepted(ops[i].args) <=> ops[i].req # 0)
            /\ ops[i].req # 0 =>
                  LET q == requests[ops[i].req]
                  IN  /\ RequestsOf(i) = {ops[i].req}
                      /\ q.method = "eth_sendTransaction"
                      /\ q.from = ops[i].args.from
                      /\ q.to = ops[i].args.to
                      /\ q.value = ExpectedWei(ops[i].args.amount)
                      /\ FromWei(q.value, "ether") = ops[i].args.amount
            /\ ops[i].pc = "resolved" =>
                  \E t \in 1..Len(txs) :
                      /\ txs[t].req = ops[i].req
                      /\ txs[t].from = ops[i].args.from
                      /\ txs[t].to = ops[i].args.to
                      /\ txs[t].value = ExpectedWei(ops[i].args.amount)
                      /\ ops[i].value = StrV(TxHashes[t])

\* C6 witness: two transfers of different amounts have both resolved, each
\* with the hash of its own transaction.
C6_Witness ==
    \E i, j \in OpIds :
        /\ ops[i].kind = "sendTransaction" /\ ops[i].pc = "resolved"
        /\ ops[j].kind = "sendTransaction" /\ ops[j].pc = "resolved"
        /\ ops[i].args.amount = AmountHalf
        /\ ops[j].args.amount = AmountOneWei
        /\ ops[i].value # ops[j].value

\* the requests that deploy: transactions without a recipient
IsDeployment(q) == q.method = "eth_sendTransaction" /\ q.to = ""

\* C7: every deployment submitted carries a gas limit of 2,000,000,
\* whatever abi, bytecode, fromAddress and constructorParams are; a
\* deployContract issues no request but that one submission (no gas
\* estimation before it, no second submission after it); and when the
\* deployment needed more than the limit, the operation, once settled, has
\* rejected with OutOfGasError.
C7_FixedGasLimit ==
    /\ \A r \in 1..Len(requests) :
          IsDeployment(requests[r]) => requests[r].gas = 2000000
    /\ \A i \in OpIds :
          ops[i].kind = "deployContract" =>
              /\ Cardinality(RequestsOf(i)) <= 1
              /\ \A r \in RequestsOf(i) :
                    /\ r = ops[i].req
                    /\ IsDeployment(requests[r])
                    /\ requests[r].from = ops[i].args.from
                    /\ requests[r].data = ops[i].args.bytecode
                    /\ requests[r].arguments = ops[i].args.methodParams
              /\ (/\ ops[i].req # 0
                  /\ responses[ops[i].req].needed > 2000000
                  /\ Settled(i)) =>
                    /\ ops[i].pc = "rejected"
                    /\ ops[i].error = "OutOfGasError"

\* C7 witness: a deployment that needed more than 2,000,000 gas was
\* submitted once with that limit and has rejected with OutOfGasError.
C7_Witness ==
    \E i \in OpIds :
        /\ ops[i].kind = "deployContract"
        /\ ops[i].pc = "rejected"
        /\ ops[i].error = "OutOfGasError"
        /\ responses[ops[i].req].needed > 2000000
        /\ requests[ops[i].req].gas = 2000000
        /\ RequestsOf(i) = {ops[i].req}

\* the request of invocation i is the one its operation makes on its own
\* arguments
OwnRequest(i) ==
    LET q == requests[ops[i].req]
        a == ops[i].args
    IN  /\ q.op = i
        /\ CASE ops[i].kind = "getBlockNumber" -> q.method = "eth_blockNumber"
             [] ops[i].kind = "getBalance" ->
                    q.method = "eth_getBalance" /\ q.address = a.address
             [] ops[i].kind = "deployContract" ->
                    IsDeployment(q) /\ q.from = a.from /\ q.data = a.bytecode
             [] ops[i].kind = "sendTransaction" ->
                    q.method = "eth_sendTransaction" /\ q.from = a.from /\ q.to = a.to
             [] OTHER -> FALSE

\* C8: in every reachable state the connection handle is the one created
\* at construction, and every operation that awaited a request and has
\* settled has settled with the answer to its own request: resolved with
\* what its operation returns from that answer's value, or rejected with
\* that answer's error.
C8_OwnAnswerHandleUntouched ==
    /\ web3 = [provider |-> ProviderUrl]
    /\ \A i \in OpIds :
          ops[i].req # 0 =>
              /\ OwnRequest(i)
              /\ Settled(i) =>
                    LET resp == responses[ops[i].req]
                    IN  /\ resp.state # "pending"
                        /\ resp.state = "ok" =>
                              /\ ops[i].pc = "resolved"
                              /\ ops[i].value = Returned(ops[i].kind, resp.value)
                              /\ ops[i].error = ""
                        /\ resp.state = "error" =>
                              /\ ops[i].pc = "rejected"
                              /\ ops[i].error = resp.error
                              /\ ops[i].value = Undefined

\* C8 witness: two operations were in flight together, both requests were
\* answered, differently, and the later invocation has settled with its own
\* answer while the earlier one is still suspended.
C8_Witness ==
    \E i, j \in OpIds :
        /\ i < j
        /\ ops[i].pc = "awaiting" /\ ops[j].pc = "resolved"
        /\ ops[i].req # 0 /\ ops[j].req # 0
        /\ responses[ops[i].req].state = "error"
        /\ responses[ops[j].req].state = "ok"
        /\ ops[j].value = Returned(ops[j].kind, responses[ops[j].req].value)

\* the chain the facade was constructed on
GenesisBalance == CHOOSE b \in InitialBalances : TRUE

\* the invocation that submitted the accepted transfer t
Sender(t) == ops[requests[txs[t].req].op]

RECURSIVE MovedFrom(_, _, _, _)
\* the wei the transfers of M among the first k moved to account a (in) or
\* away from it (out), by the amounts their callers named
MovedFrom(a, M, k, in) ==
    IF k = 0 THEN <<"0">>
    ELSE IF k \in M /\ (IF in THEN Sender(k).args.to ELSE Sender(k).args.from) = a
    THEN AddDec(MovedFrom(a, M, k - 1, in), ExpectedWei(Sender(k).args.amount))
    ELSE MovedFrom(a, M, k - 1, in)

\* the balance of account a when exactly the transfers of M are mined
ExpectedBalance(a, M) ==
    SubDec(AddDec(GenesisBalance[a], MovedFrom(a, M, Len(txs), TRUE)),
           MovedFrom(a, M, Len(txs), FALSE))

\* every getBalance that resolved shows the balance with exactly the
\* transfers mined when the node answered it
C9_BalanceReflectsMined ==
    \A j \in OpIds :
        (ops[j].kind = "getBalance" /\ ops[j].pc = "resolved") =>
            /\ ToWeiAccepts(ops[j].value.d, "ether")
            /\ ToWei(ops[j].value.d, "ether") =
                  ExpectedBalance(ops[j].args.address, responses[ops[j].req].seen)

\* the sendTransaction i has resolved
SendSucceeded(i) == ops[i].kind = "sendTransaction" /\ ops[i].pc = "resolved"

\* the transfer the node accepted for invocation i is mined
TransferMined(i) == \E t \in Mined : txs[t].req = ops[i].req

\* C9: every getBalance answered once a transfer is mined shows the
\* recipient's balance raised by the amount (in Ether, as the caller named
\* it) over what it was, other mined transfers aside, while one answered
\* before shows the balance without it; and while the node keeps mining,
\* the transfer of every sendTransaction that resolved is eventually mined.
C9_TransferReflectedOnceMined ==
    /\ []C9_BalanceReflectsMined
    /\ \A i \in OpIds : SendSucceeded(i) ~> TransferMined(i)

\* C9 witness: sendTransaction("0xABC", "0xDEF", "0.5") resolved, its
\* transfer was mined, and a getBalance("0xDEF") answered after that
\* resolved with "0.5", the account having held nothing before.
C9_Witness ==
    \E i, j \in OpIds :
        /\ SendSucceeded(i) /\ TransferMined(i)
        /\ ops[i].args.to = "0xDEF" /\ ops[i].args.amount = AmountHalf
        /\ ops[j].kind = "getBalance" /\ ops[j].pc = "resolved"
        /\ ops[j].args.address = "0xDEF"
        /\ \E t \in responses[ops[j].req].seen : txs[t].req = ops[i].req
        /\ ops[j].value.d = <<"0", ".", "5">>

=============================================================================
